---- MODULE Spec2Model ----
(***************************************************************************)
(* State machine of the Mersenne Twister generator in src/src/lib.rs       *)
(* (struct Random: from_seed / seed_mt / next / twist).                    *)
(*                                                                         *)
(* Machine integers are kept at their width.  An unsigned integer of 16*n  *)
(* bits is a sequence of n digits in base 2^16, least significant first:   *)
(* a u32 is <<lo, hi>>, a u64 is <<d0, d1, d2, d3>>.                        *)
(***************************************************************************)
EXTENDS Integers, Sequences, FiniteSets, TLC

\* ------------------------------------------------------------- constants
W == 32
N == 624
M == 397
R == 31
S == 7
T == 15
U == 11
L == 18
F == 1812433253
DEFAULT_SEED == 5489

Base == 2 ^ 16

\* ------------------------------------------------------------- state
VARIABLES
    mt, index, lower_mask, upper_mask,   \* the fields of the generator
    ctor,          \* how it was constructed: "new" or "from_seed"
    givenSeed,     \* the seed it was constructed from
    calls,         \* number of next() calls made so far
    ret,           \* value returned by the last next() call
    twists,        \* number of twists performed so far
    didTwist,      \* whether the last call performed a twist
    accessed,      \* positions of mt the last call touched
    panicked,      \* whether a call panicked
    direct,        \* number of direct twist() calls made so far
    twin,          \* a second generator, constructed independently
    twinCalls,     \* number of next() calls made on the twin
    twinRet,       \* value returned by the twin's last next() call
    ref,           \* the MT19937 generator of the design, run alongside
    refRet         \* value it returned last

gen == <<mt, index, lower_mask, upper_mask>>
hist == <<ctor, givenSeed, calls, ret, twists, didTwist, accessed, panicked, direct>>
pair == <<twin, twinCalls, twinRet>>
refs == <<ref, refRet>>
vars == <<gen, hist, pair, refs>>

Self == [mt |-> mt, index |-> index,
         lower_mask |-> lower_mask, upper_mask |-> upper_mask]


\* ------------------------------------------------- fixed-width arithmetic
RECURSIVE Pow2(_)
Pow2(k) == IF k = 0 THEN 1 ELSE 2 * Pow2(k - 1)

\* the u32 / u64 holding a number below 2^31 (a literal or a usize cast)
U32(v) == <<v % Base, v \div Base>>
U64(v) == <<v % Base, v \div Base, 0, 0>>

\* `x as u64` of a u32, `x as u32` of a u64
AsU64(a) == <<a[1], a[2], 0, 0>>
AsU32(a) == <<a[1], a[2]>>

RECURSIVE XorDigit(_, _, _)
XorDigit(a, b, n) ==
    IF n = 0 THEN 0
    ELSE ((a + b) % 2) + 2 * XorDigit(a \div 2, b \div 2, n - 1)

RECURSIVE AndDigit(_, _, _)
AndDigit(a, b, n) ==
    IF n = 0 THEN 0
    ELSE ((a % 2) * (b % 2)) + 2 * AndDigit(a \div 2, b \div 2, n - 1)

\* a ^ b, a & b, !a on integers of the same width
RECURSIVE Xor(_, _)
Xor(a, b) ==
    IF a = <<>> THEN <<>>
    ELSE <<XorDigit(Head(a), Head(b), 16)>> \o Xor(Tail(a), Tail(b))

RECURSIVE And(_, _)
And(a, b) ==
    IF a = <<>> THEN <<>>
    ELSE <<AndDigit(Head(a), Head(b), 16)>> \o And(Tail(a), Tail(b))

RECURSIVE Not(_)
Not(a) ==
    IF a = <<>> THEN <<>>
    ELSE <<(Base - 1) - Head(a)>> \o Not(Tail(a))

DigitAt(a, j) == IF j >= 1 /\ j <= Len(a) THEN a[j] ELSE 0

\* a >> k and a << k (bits shifted out are dropped), 0 <= k < width
ShrDigit(a, k, j) ==
    LET q == k \div 16
        r == k % 16
    IN (DigitAt(a, j + q) \div Pow2(r))
       + (DigitAt(a, j + q + 1) % Pow2(r)) * Pow2(16 - r)

RECURSIVE ShrFrom(_, _, _)
ShrFrom(a, k, j) ==
    IF j > Len(a) THEN <<>> ELSE <<ShrDigit(a, k, j)>> \o ShrFrom(a, k, j + 1)

Shr(a, k) == ShrFrom(a, k, 1)

ShlDigit(a, k, j) ==
    LET q == k \div 16
        r == k % 16
    IN (DigitAt(a, j - q) % Pow2(16 - r)) * Pow2(r)
       + (DigitAt(a, j - q - 1) \div Pow2(16 - r))

RECURSIVE ShlFrom(_, _, _)
ShlFrom(a, k, j) ==
    IF j > Len(a) THEN <<>> ELSE <<ShlDigit(a, k, j)>> \o ShlFrom(a, k, j + 1)

Shl(a, k) == ShlFrom(a, k, 1)

\* the exact sum a + b as Len(a) + 1 digits (the last one is the carry out)
RECURSIVE AddFrom(_, _, _, _, _)
AddFrom(a, b, j, carry, acc) ==
    IF j > Len(a) THEN Append(acc, carry)
    ELSE LET s == a[j] + b[j] + carry
         IN AddFrom(a, b, j + 1, s \div Base, Append(acc, s % Base))

AddExact(a, b) == AddFrom(a, b, 1, 0, <<>>)

\* a - b modulo the width, as Len(a) + 1 digits (the last one is the borrow out)
RECURSIVE SubFrom(_, _, _, _, _)
SubFrom(a, b, j, borrow, acc) ==
    IF j > Len(a) THEN Append(acc, borrow)
    ELSE LET s == a[j] - b[j] - borrow
         IN SubFrom(a, b, j + 1, IF s < 0 THEN 1 ELSE 0,
                    Append(acc, IF s < 0 THEN s + Base ELSE s))

SubExact(a, b) == SubFrom(a, b, 1, 0, <<>>)

\* bytes of an integer, least significant first, and back
RECURSIVE Bytes(_)
Bytes(a) ==
    IF a = <<>> THEN <<>>
    ELSE <<Head(a) % 256, Head(a) \div 256>> \o Bytes(Tail(a))

RECURSIVE FromBytes(_)
FromBytes(b) ==
    IF b = <<>> THEN <<>>
    ELSE <<b[1] + 256 * b[2]>> \o FromBytes(SubSeq(b, 3, Len(b)))

RECURSIVE Column(_, _, _, _)
Column(x, y, k, i) ==
    IF i > Len(x) THEN 0
    ELSE (IF k - i + 1 >= 1 /\ k - i + 1 <= Len(y) THEN x[i] * y[k - i + 1] ELSE 0)
         + Column(x, y, k, i + 1)

RECURSIVE MulFrom(_, _, _, _, _)
MulFrom(x, y, k, carry, acc) ==
    IF k > Len(x) + Len(y) THEN acc
    ELSE LET s == Column(x, y, k, 1) + carry
         IN MulFrom(x, y, k + 1, s \div 256, Append(acc, s % 256))

\* the exact product a * b as Len(a) + Len(b) digits
MulExact(a, b) == FromBytes(MulFrom(Bytes(a), Bytes(b), 1, 0, <<>>))

Low(a, n) == SubSeq(a, 1, n)
HighIsZero(a, n) == \A j \in (n + 1)..Len(a) : a[j] = 0
IsOdd(a) == a[1] % 2 = 1


\* ------------------------------------------------------- masks (u32)
A == <<45279, 39176>>      \* 0x9908B0DF
B == <<22144, 40236>>      \* 0x9D2C5680
C == <<0, 61382>>          \* 0xEFC60000
D == <<65535, 65535>>      \* 0xFFFFFFFF

\* ------------------------------------------------------- struct Random
\* mt: [u32; N], indexed 0..N-1
RECURSIVE Filled(_, _, _)
Filled(lo, hi, v) ==
    IF hi = lo + 1 THEN lo :> v
    ELSE LET mid == (lo + hi) \div 2
         IN Filled(lo, mid, v) @@ Filled(mid, hi, v)

\* [0u32; N as usize]
ZeroArray == Filled(0, N, U32(0))

InBounds(j) == j >= 0 /\ j < N

\* mutant: the index is not added to the product
OperationWithoutIndex(previous, i) ==
    MulExact(U64(F), Xor(previous, Shr(previous, W - 2))) \o <<0>>

\* let operation = (F as u64 * (previous ^ (previous >> ((W - 2) as u64)))) + (i as u64);
\* the exact value, 9 digits: a u64 holds it iff digits 5..9 are zero
Operation(previous, i) ==
    LET p == MulExact(U64(F), Xor(previous, Shr(previous, W - 2)))
    IN AddExact(p, <<i, 0, 0, 0, 0, 0, 0, 0>>)

\* self.mt[i] = operation as u32;  (one pass of the seeding loop body)
SeedStep(a, i) == [a EXCEPT ![i] = AsU32(Operation(AsU64(a[i - 1]), i))]

\* the loop body run for i = lo, lo + 1, ..., hi - 1, in that order (the range
\* is split in halves, first half first, so that the evaluation depth stays
\* logarithmic; the loops only visit positions of the array)
RECURSIVE SeedRange(_, _, _)
SeedRange(a, lo, hi) ==
    IF hi <= lo \/ lo \notin DOMAIN a THEN a
    ELSE IF hi = lo + 1 THEN SeedStep(a, lo)
    ELSE LET mid == (lo + hi) \div 2
         IN SeedRange(SeedRange(a, lo, mid), mid, hi)

\* mutant: the seeding loop also writes the last word
SeedLoopToLastWord(a) == SeedRange(a, 1, N)

\* for i in 1..(N as usize - 1) { ... }
SeedLoop(a) == SeedRange(a, 1, N - 1)

\* mutant: the seed argument is ignored, the default seed is stored
seed_mt_ignores_seed(self, seed) ==
    [self EXCEPT !.index = N,
                 !.mt = SeedLoop([self.mt EXCEPT ![0] = U32(DEFAULT_SEED)])]

seed_mt(self, seed) ==
    [self EXCEPT !.index = N,
                 !.mt = SeedLoop([self.mt EXCEPT ![0] = seed])]

\* mutant: the lower mask is 1 << R, the subtraction forgotten
from_seed_mask_not_decremented(seed) ==
    LET lower_mask0 == Shl(U32(1), R)
        random == [mt |-> ZeroArray,
                   index |-> N + 1,
                   lower_mask |-> lower_mask0,
                   upper_mask |-> Not(lower_mask0)]
    IN seed_mt(random, seed)

from_seed(seed) ==
    LET lower_mask0 == Low(SubExact(Shl(U32(1), R), U32(1)), 2)
        random == [mt |-> ZeroArray,
                   index |-> N + 1,
                   lower_mask |-> lower_mask0,
                   upper_mask |-> Not(lower_mask0)]
    IN seed_mt(random, seed)

\* mutant: the default generator is seeded with zero
new_seeded_with_zero == from_seed(U32(0))

new == from_seed(U32(DEFAULT_SEED))

\* the positions of mt one pass of the twist loop touches at step i
NextIdx(i) == (i + 1) % N
MidIdx(i) == (i + M) % N
TwistEnd == N - 1
TwistReads(i) == {i, NextIdx(i), MidIdx(i)}
TwistAccesses == UNION {TwistReads(i) : i \in 0..(TwistEnd - 1)}

\* mutant: the two words are added without their masks
TwistSumUnmasked(a, i, lower, upper) == AddExact(a[i], a[NextIdx(i)])

\* let x = (self.mt[i] & self.upper_mask) + (self.mt[(i + 1) % N] & self.lower_mask);
\* the exact sum, 3 digits: a u32 holds it iff digit 3 is zero
TwistSum(a, i, lower, upper) ==
    AddExact(And(a[i], upper), And(a[NextIdx(i)], lower))

TwistWord(a, i, lower, upper) ==
    LET x == Low(TwistSum(a, i, lower, upper), 2)
        x_a == IF IsOdd(x) THEN Xor(Shr(x, 1), A) ELSE Shr(x, 1)
    IN Xor(a[MidIdx(i)], x_a)

\* self.mt[i] = self.mt[(i + M) % N] ^ x_a;  (one pass of the twist loop body)
TwistStep(a, i, lower, upper) ==
    [a EXCEPT ![i] = TwistWord(a, i, lower, upper)]

\* the loop body run in place for i = lo, lo + 1, ..., hi - 1, in that order
RECURSIVE TwistRange(_, _, _, _, _)
TwistRange(a, lo, hi, lower, upper) ==
    IF hi <= lo \/ lo \notin DOMAIN a THEN a
    ELSE IF hi = lo + 1 THEN TwistStep(a, lo, lower, upper)
    ELSE LET mid == (lo + hi) \div 2
         IN TwistRange(TwistRange(a, lo, mid, lower, upper), mid, hi, lower, upper)

\* for i in 0..(N as usize - 1) { ... }
TwistLoop(a, lower, upper) == TwistRange(a, 0, TwistEnd, lower, upper)

\* mutant: every new word is computed from a copy of the array taken before
\* the pass
twist_from_snapshot(self) ==
    [self EXCEPT !.mt = [i \in 0..(N - 1) |->
                           IF i < TwistEnd
                           THEN TwistWord(self.mt, i, self.lower_mask, self.upper_mask)
                           ELSE self.mt[i]],
                 !.index = 0]

\* mutant: the cursor is left where it was
twist_keeps_index(self) ==
    [self EXCEPT !.mt = TwistRange(self.mt, 0, TwistEnd, self.lower_mask, self.upper_mask)]

\* mutant: the cursor is reset one past the first word
twist_resets_to_one(self) ==
    [self EXCEPT !.mt = TwistRange(self.mt, 0, TwistEnd, self.lower_mask, self.upper_mask),
                 !.index = 1]

twist(self) ==
    [self EXCEPT !.mt = TwistLoop(self.mt, self.lower_mask, self.upper_mask),
                 !.index = 0]

\* mutant: the two left shifts are exchanged
TemperShiftsExchanged(y0) ==
    LET y1 == Xor(y0, And(Shr(y0, U), D))
        y2 == Xor(y1, And(Shl(y1, T), B))
        y3 == Xor(y2, And(Shl(y2, S), C))
    IN Xor(y3, Shr(y3, L))

\* mutant: the last tempering step is left out
TemperWithoutL(y0) ==
    LET y1 == Xor(y0, And(Shr(y0, U), D))
        y2 == Xor(y1, And(Shl(y1, S), B))
    IN Xor(y2, And(Shl(y2, T), C))

\* y ^= (y >> U) & D; y ^= (y << S) & B; y ^= (y << T) & C; y ^= y >> L;
Temper(y0) ==
    LET y1 == Xor(y0, And(Shr(y0, U), D))
        y2 == Xor(y1, And(Shl(y1, S), B))
        y3 == Xor(y2, And(Shl(y2, T), C))
    IN Xor(y3, Shr(y3, L))

\* mutant: the regeneration test reads a cursor shared by every generator
NeedsTwistSharedCursor(self) == index >= N

\* mutant: the regeneration test misses index = N
NeedsTwistAboveN(self) == self.index > N

NeedsTwist(self) == self.index >= N

\* mutant: the cursor is not advanced after the extraction
next_without_bump(self) ==
    LET twisted == NeedsTwist(self)
        acc1 == IF twisted THEN TwistAccesses ELSE {}
        ok1 == \A j \in acc1 : InBounds(j)
        s1 == IF twisted /\ ok1 THEN twist(self) ELSE self
        ok2 == ok1 /\ InBounds(s1.index)
    IN [self |-> s1,
        value |-> IF ok2 THEN Temper(s1.mt[s1.index]) ELSE U32(0),
        twisted |-> twisted,
        accessed |-> IF ok1 THEN acc1 \cup {s1.index} ELSE acc1,
        panicked |-> ~ok2]

\* mutant: the tempered value is stored back into the state word
next_writes_back(self) ==
    LET twisted == NeedsTwist(self)
        acc1 == IF twisted THEN TwistAccesses ELSE {}
        ok1 == \A j \in acc1 : InBounds(j)
        s1 == IF twisted /\ ok1 THEN twist(self) ELSE self
        ok2 == ok1 /\ InBounds(s1.index)
    IN [self |-> IF ok2
                 THEN [s1 EXCEPT !.mt[s1.index] = Temper(s1.mt[s1.index]),
                                 !.index = s1.index + 1]
                 ELSE s1,
        value |-> IF ok2 THEN Temper(s1.mt[s1.index]) ELSE U32(0),
        twisted |-> twisted,
        accessed |-> IF ok1 THEN acc1 \cup {s1.index} ELSE acc1,
        panicked |-> ~ok2]

\* next(): the generator after the call, the value returned, the positions
\* of mt the call touched, and whether it panicked on an index out of bounds
next(self) ==
    LET twisted == NeedsTwist(self)
        acc1 == IF twisted THEN TwistAccesses ELSE {}
        ok1 == \A j \in acc1 : InBounds(j)
        s1 == IF twisted /\ ok1 THEN twist(self) ELSE self
        ok2 == ok1 /\ InBounds(s1.index)
    IN [self |-> IF ok2 THEN [s1 EXCEPT !.index = s1.index + 1] ELSE s1,
        value |-> IF ok2 THEN Temper(s1.mt[s1.index]) ELSE U32(0),
        twisted |-> twisted,
        accessed |-> IF ok1 THEN acc1 \cup {s1.index} ELSE acc1,
        panicked |-> ~ok2]

\* ------------------------------------------- MT19937 as the design states it
\* the seeding recurrence fills every word 1..N-1, the twist rewrites every
\* position 0..N-1 in increasing order, the output is the tempered word
MT19937Seed(seed) ==
    [mt |-> SeedRange([ZeroArray EXCEPT ![0] = seed], 1, N),
     index |-> N,
     lower_mask |-> <<65535, 32767>>,
     upper_mask |-> <<0, 32768>>]

MT19937Twist(a, lower, upper) == TwistRange(a, 0, N, lower, upper)

MT19937Next(g) ==
    LET a == IF g.index >= N
             THEN MT19937Twist(g.mt, g.lower_mask, g.upper_mask)
             ELSE g.mt
        k == IF g.index >= N THEN 0 ELSE g.index
    IN [self |-> [g EXCEPT !.mt = a, !.index = k + 1],
        value |-> Temper(a[k])]

\* ------------------------------------------------------------ bounds
MaxCalls == 1250
MaxSeed == 0
MaxPairCalls == 630
MaxDirectCalls == 4
MaxDirectTwists == 2
Several == 8

\* seeds the callers pass: the small ones, the tests' seeds, the largest u32
Seeds == {U32(k) : k \in 0..MaxSeed} \cup {U32(11), U32(32), <<65535, 65535>>}

\* placeholder for a generator that is not part of the run
NoGen == [mt |-> <<>>, index |-> 0, lower_mask |-> <<>>, upper_mask |-> <<>>]

Install(g) ==
    /\ mt' = g.mt
    /\ index' = g.index
    /\ lower_mask' = g.lower_mask
    /\ upper_mask' = g.upper_mask

Fresh(g, c, s) ==
    /\ mt = g.mt
    /\ index = g.index
    /\ lower_mask = g.lower_mask
    /\ upper_mask = g.upper_mask
    /\ ctor = c
    /\ givenSeed = s
    /\ calls = 0
    /\ ret = U32(0)
    /\ twists = 0
    /\ didTwist = FALSE
    /\ accessed = {}
    /\ panicked = FALSE
    /\ direct = 0

\* let generator = Random::from_seed(seed);  or  Random::new();
Construct ==
    \/ \E s \in Seeds : Fresh(from_seed(s), "from_seed", s)
    \/ Fresh(new, "new", U32(DEFAULT_SEED))

\* generator.next(), on the generator's own fields and bookkeeping
Call ==
    /\ ~panicked
    /\ LET r == next(Self)
       IN /\ Install(r.self)
          /\ ret' = r.value
          /\ didTwist' = r.twisted
          /\ twists' = IF r.twisted /\ ~r.panicked THEN twists + 1 ELSE twists
          /\ accessed' = r.accessed
          /\ panicked' = r.panicked
    /\ calls' = calls + 1
    /\ UNCHANGED <<ctor, givenSeed, direct>>

\* ---- one generator, next() called repeatedly
Init ==
    /\ Construct
    /\ twin = NoGen /\ twinCalls = 0 /\ twinRet = U32(0)
    /\ ref = NoGen /\ refRet = U32(0)

NextCall ==
    /\ calls < MaxCalls
    /\ Call
    /\ UNCHANGED <<pair, refs>>

Next == NextCall

Spec == Init /\ [][Next]_vars

\* ---- one generator, next() and twist() called in any order
\* generator.twist()
TwistCall ==
    /\ ~panicked
    /\ direct < MaxDirectTwists
    /\ Install(twist(Self))
    /\ direct' = direct + 1
    /\ twists' = twists + 1
    /\ didTwist' = TRUE
    /\ accessed' = TwistAccesses
    /\ UNCHANGED <<ctor, givenSeed, calls, ret, panicked, pair, refs>>

DirectNextCall ==
    /\ calls < MaxDirectCalls
    /\ Call
    /\ UNCHANGED <<pair, refs>>

NextDirect == DirectNextCall \/ TwistCall

SpecDirect == Init /\ [][NextDirect]_vars

\* ---- two generators constructed independently and called in turn: the
\* ---- second one is always built by from_seed, with the first one's seed
InitPair ==
    /\ Construct
    /\ twin = from_seed(givenSeed) /\ twinCalls = 0 /\ twinRet = U32(0)
    /\ ref = NoGen /\ refRet = U32(0)

PairCall ==
    /\ calls < MaxPairCalls
    /\ twinCalls = calls
    /\ Call
    /\ UNCHANGED <<pair, refs>>

TwinCall ==
    /\ twinCalls < calls
    /\ LET r == next(twin)
       IN twin' = r.self /\ twinRet' = r.value
    /\ twinCalls' = twinCalls + 1
    /\ UNCHANGED <<gen, hist, refs>>

NextPair == PairCall \/ TwinCall

SpecPair == InitPair /\ [][NextPair]_vars

\* ---- the generator and the design's MT19937, from the same seed, in step
InitRef ==
    /\ Construct
    /\ twin = NoGen /\ twinCalls = 0 /\ twinRet = U32(0)
    /\ ref = MT19937Seed(givenSeed) /\ refRet = U32(0)

RefCall ==
    /\ calls < MaxPairCalls
    /\ Call
    /\ LET r == MT19937Next(ref)
       IN ref' = r.self /\ refRet' = r.value
    /\ UNCHANGED pair

NextRef == RefCall

SpecRef == InitRef /\ [][NextRef]_vars

\* ================================================================ claims
Word623Seeded == AsU32(Operation(AsU64(mt[N - 2]), N - 1))
Lockstep == calls >= 1 /\ ref.index = index

\* C1: for every seed and every n >= 1 the n-th value returned by next()
\* equals the n-th value of MT19937 as the design defines it (all words
\* seeded, all positions rewritten by the twist, tempered output).
C1_OutputsAreMT19937 == Lockstep => ret = refRet

\* C2: after from_seed(seed) all 624 words are populated by the seeding
\* recurrence; in particular mt[623] = (F * (mt[622] ^ (mt[622] >> 30)) + 623)
\* mod 2^32 and is not left at zero.
C2_AllWordsSeeded ==
    (calls = 0 /\ direct = 0) =>
        /\ mt[0] = givenSeed
        /\ \A i \in 1..(N - 1) : mt[i] = AsU32(Operation(AsU64(mt[i - 1]), i))
        /\ mt[N - 1] = Word623Seeded
        /\ mt[N - 1] # U32(0)

\* C3: one twist rewrites every position 0..623, position 623 included (its
\* neighbour is position 0), to mt[(i+397) mod 624] ^ x_a.
C3_TwistRewritesEveryPosition ==
    [][didTwist' => mt' = MT19937Twist(mt, lower_mask, upper_mask)]_vars

\* C4: for every seed (0 included) and any number of next() calls, 1248 and
\* more, no call fails: every position of mt a call touches is in 0..623, and
\* after every call 0 <= index <= 624.
C4_NoOutOfBounds ==
    /\ ~panicked
    /\ \A j \in accessed : j >= 0 /\ j <= 623
    /\ index >= 0 /\ index <= 624
    /\ calls >= 1 => Cardinality(accessed) >= 1

C4_Witness ==
    /\ givenSeed = U32(0) /\ calls >= 1248 /\ twists = 3 /\ ~panicked
    /\ Cardinality(accessed) = 1

\* C5: from a fresh generator the first next() twists and leaves index = 1,
\* calls 2..624 do not twist and raise index by 1 each, index = 624 after the
\* 624th call, the 625th call twists again and leaves index = 1: a twist
\* happens exactly on the calls numbered 624 * k + 1.
C5_TwistEvery624Calls ==
    /\ calls = 0 => (index = 624 /\ twists = 0)
    /\ calls >= 1 =>
        /\ didTwist <=> (calls % 624 = 1)
        /\ index = ((calls - 1) % 624) + 1
        /\ twists = ((calls - 1) \div 624) + 1

C5_Witness == calls = 625 /\ didTwist /\ index = 1 /\ twists = 2

C7_KnownAnswer ==
    (ctor = "from_seed" /\ givenSeed = U32(32) /\ calls = 1) => ret = <<10967, 56288>>

C7_Witness == ctor = "from_seed" /\ givenSeed = U32(32) /\ calls = 1 /\ ~panicked

\* C8: Random::new() is equivalent to Random::from_seed(5489): same state
\* array (mt[0] = 5489 at construction), same index and masks, and the same
\* values from next() for any number of calls.
C8_NewIsFromSeed5489 ==
    ctor = "new" =>
        /\ calls = 0 => mt[0] = U32(5489)
        /\ twinCalls = 0 => twin = from_seed(U32(5489))
        /\ twinCalls = calls => (twin = Self /\ twinRet = ret)

C8_Witness ==
    /\ ctor = "new" /\ twinCalls = calls /\ calls = 626
    /\ twists = 2 /\ twin.index = 2

\* C9: right after from_seed(seed): mt[0] = seed, index = 624, lower_mask =
\* 2^31 - 1, upper_mask = NOT lower_mask; and in every state reached by next()
\* and twist() calls the masks are the same and lower_mask XOR upper_mask =
\* 0xFFFFFFFF.
C9_FreshFieldsAndMasks ==
    /\ (calls = 0 /\ direct = 0) => (mt[0] = givenSeed /\ index = 624)
    /\ lower_mask = <<65535, 32767>>
    /\ upper_mask = Not(lower_mask)
    /\ upper_mask = <<0, 32768>>
    /\ Xor(lower_mask, upper_mask) = <<65535, 65535>>

C9_Witness == calls >= 2 /\ direct >= 1 /\ twists >= 2 /\ ~panicked

\* C10: a next() call entered with index < 624 leaves the 624 state words and
\* both masks unchanged, raises index by exactly 1 and changes nothing else of
\* the generator; the value returned is the tempering of a copy of mt[index].
C10_ExtractionFrame ==
    [][(calls' = calls + 1 /\ index < 624) =>
          /\ mt' = mt
          /\ lower_mask' = lower_mask
          /\ upper_mask' = upper_mask
          /\ index' = index + 1
          /\ ret' = Temper(mt[index])]_vars

C10_Witness == calls >= 2 /\ ~didTwist /\ index = 2 /\ mt[1] # U32(0) /\ ~panicked

\* ---- 32-bit words bit by bit (bit 0 is the least significant), used to
\* ---- state the tempering independently of the digit arithmetic
BitOf(w, i) == (w[(i \div 16) + 1] \div Pow2(i % 16)) % 2
BitAt(b, i) == IF i >= 0 /\ i <= 31 THEN b[i] ELSE 0
Bits(w) == [i \in 0..31 |-> BitOf(w, i)]
BitXor(a, b) == [i \in 0..31 |-> (a[i] + b[i]) % 2]
BitAnd(a, b) == [i \in 0..31 |-> a[i] * b[i]]
BitShr(a, k) == [i \in 0..31 |-> BitAt(a, i + k)]
BitShl(a, k) == [i \in 0..31 |-> BitAt(a, i - k)]

\* y ^= (y >> 11) & 0xFFFFFFFF; y ^= (y << 7) & 0x9D2C5680;
\* y ^= (y << 15) & 0xEFC60000; y ^= (y >> 18), left shifts truncated to 32 bits
BitTemper(w) ==
    LET y0 == Bits(w)
        y1 == BitXor(y0, BitAnd(BitShr(y0, 11), Bits(<<65535, 65535>>)))
        y2 == BitXor(y1, BitAnd(BitShl(y1, 7), Bits(<<22144, 40236>>)))
        y3 == BitXor(y2, BitAnd(BitShl(y2, 15), Bits(<<0, 61382>>)))
    IN BitXor(y3, BitShr(y3, 18))

\* C11: consecutive outputs of one generator differ: for a generator built
\* with Random::new() (seed 5489) the first and second values returned by
\* next() are different, and so are any two consecutive values among its
\* first several outputs.
C11_ConsecutiveOutputsDiffer ==
    [][(ctor = "new" /\ calls >= 1 /\ calls' = calls + 1 /\ calls' <= Several)
          => ret' # ret]_vars

C11_Witness == ctor = "new" /\ calls = Several /\ index = Several /\ ~panicked

\* C12: seed sensitivity: the first value returned by next() on from_seed(32)
\* differs from the first value returned by next() on from_seed(11).
C12_SeedSensitivity ==
    (ctor = "from_seed" /\ givenSeed = U32(11) /\ calls = 1) =>
        ret # next(from_seed(U32(32))).value

C12_Witness ==
    /\ ctor = "from_seed" /\ givenSeed = U32(11) /\ calls = 1 /\ ~panicked
    /\ ret = <<10137, 11814>>

\* C13: the value returned by next() is exactly the tempering of the state
\* word at the cursor (read after any twist, before the increment), with the
\* shifts and masks of the design and left shifts truncated to 32 bits; it
\* depends on that word only.
C13_ReturnIsTemperedWord ==
    (calls >= 1 /\ ~panicked) => Bits(ret) = BitTemper(mt[index - 1])

C13_Witness ==
    /\ calls = 625 /\ didTwist /\ index = 1 /\ ret # U32(0)
    /\ Bits(ret) = BitTemper(mt[0])

\* f * t modulo 2^32 by shifting and adding, f < 2^31 a number and t a u32
RECURSIVE MulMod32(_, _, _)
MulMod32(f, t, k) ==
    IF k > 30 THEN U32(0)
    ELSE LET rest == MulMod32(f, t, k + 1)
         IN IF (f \div Pow2(k)) % 2 = 1
            THEN Low(AddExact(rest, Shl(t, k)), 2)
            ELSE rest

\* (1812433253 * (p XOR (p >> 30)) + i) mod 2^32
Recurrence(p, i) ==
    Low(AddExact(MulMod32(1812433253, Xor(p, Shr(p, 30)), 0), U32(i)), 2)

\* C14: for every seed, 0 included, seed_mt sets mt[i] = (1812433253 *
\* (mt[i-1] XOR (mt[i-1] >> 30)) + i) mod 2^32 for every i in 1..622; the
\* multiply-add done in 64 bits never exceeds 2^64 - 1 and only its low 32
\* bits are stored.
C14_SeedingRecurrence ==
    (calls = 0 /\ direct = 0) =>
        \A i \in 1..622 :
            /\ mt[i] = Recurrence(mt[i - 1], i)
            /\ HighIsZero(Operation(AsU64(mt[i - 1]), i), 4)
            /\ mt[i] = Low(Operation(AsU64(mt[i - 1]), i), 2)

C14_Witness ==
    /\ calls = 0 /\ givenSeed = U32(0) /\ mt[0] = U32(0)
    /\ mt[1] = U32(1) /\ mt[622] # U32(0)
    /\ ~HighIsZero(Operation(AsU64(mt[621]), 622), 2)

\* x_a of the twist for the two words a (upper bit) and b (lower 31 bits)
TwistXa(a, b) ==
    LET x == Low(AddExact(And(a, <<0, 32768>>), And(b, <<65535, 32767>>)), 2)
    IN IF x[1] % 2 = 1 THEN Xor(Shr(x, 1), <<45279, 39176>>) ELSE Shr(x, 1)

\* C15: twist() updates the state in place in increasing index order: for
\* positions i <= 226 the word read at (i+397) mod 624 is the value from
\* before the twist, for 227 <= i <= 622 it is the value already rewritten in
\* the same pass; words 0..622 after twist() are those of the design's
\* sequential algorithm run on the same state.
C15_TwistInPlace ==
    [][didTwist' =>
          /\ \A i \in 0..226 :
                mt'[i] = Xor(mt[i + 397], TwistXa(mt[i], mt[i + 1]))
          /\ \A i \in 227..622 :
                mt'[i] = Xor(mt'[i - 227], TwistXa(mt[i], mt[i + 1]))
          /\ LET d == MT19937Twist(mt, lower_mask, upper_mask)
             IN \A i \in 0..622 : mt'[i] = d[i]]_vars

C15_Witness ==
    /\ calls = 1 /\ didTwist /\ twists = 1 /\ ~panicked
    /\ mt[226] # U32(0) /\ mt[227] # mt[0] /\ mt[622] # U32(0)

\* C16: twist() always leaves index = 0, whatever the index was before; and
\* within next() a twist, and with it any change of the state array, happens
\* if and only if index >= 624 when the call is entered.
C16_TwistResetsAndTrigger ==
    [][/\ direct' = direct + 1 => (index' = 0 /\ didTwist')
       /\ calls' = calls + 1 =>
            /\ didTwist' <=> index >= 624
            /\ twists' = (IF index >= 624 THEN twists + 1 ELSE twists)
            /\ mt' # mt => index >= 624
            /\ index >= 624 =>
                 (mt' = TwistLoop(mt, lower_mask, upper_mask) /\ index' = 0 + 1)]_vars

C16_Witness ==
    /\ direct = 2 /\ calls = 3 /\ twists = 3 /\ index = 0 /\ didTwist /\ ~panicked

\* C17: for every seed mt[623] is 0 in every reachable state (neither
\* seed_mt nor twist writes it), so every next() call that reads position
\* 623 - the 624th, the 1248th, ... - returns 0.
C17_LastWordStaysZero ==
    /\ mt[623] = U32(0)
    /\ (calls >= 1 /\ calls % 624 = 0) => (index = 624 /\ ret = U32(0))

C17_Witness ==
    /\ calls = 1248 /\ index = 624 /\ twists = 2 /\ ret = U32(0)
    /\ mt[622] # U32(0) /\ ~panicked

\* a | b
Or(a, b) == Xor(Xor(a, b), And(a, b))

\* C18: in twist(), for every position i, the sum (mt[i] & upper_mask) +
\* (mt[(i+1) mod 624] & lower_mask) never exceeds 2^32 - 1: the operands have
\* no bit in common, so the sum is their bitwise OR and the u32 addition does
\* not overflow; and index += 1 in next() never takes index above 624.
\* (The sums are those of the states in which next() runs twist().)
C18_NoOverflow ==
    /\ index <= 624
    /\ index >= 624 =>
         \A i \in 0..622 :
            LET hi == And(mt[i], upper_mask)
                lo == And(mt[(i + 1) % 624], lower_mask)
                sum == TwistSum(mt, i, lower_mask, upper_mask)
            IN /\ sum[3] = 0
               /\ And(hi, lo) = U32(0)
               /\ Low(sum, 2) = Or(hi, lo)

C18_Witness ==
    /\ calls = 624 /\ index = 624 /\ ~panicked
    /\ \E i \in 0..622 : mt[i][2] >= 32768 /\ mt[i + 1][2] >= 32768
====
